---- MODULE Spec2Model ----
(***************************************************************************)
(* Model of lambo/optimizers/eo_direct.py: pareto_frontier and the round   *)
(* loop of SequentialGeneticOptimizer.optimize (with the model-free        *)
(* _evaluate_result).                                                      *)
(*                                                                         *)
(* A candidate with its sequence and its objective vector is one record    *)
(* [seq, tgt]; the three parallel arrays the code keeps (candidates,       *)
(* targets, seqs) are one sequence of such records, because every indexing *)
(* of the code is applied to the three arrays alike.  Sequences are opaque *)
(* names; sequence 0 is the one the oracle finds infeasible.               *)
(***************************************************************************)
EXTENDS Integers, Sequences, FiniteSets, TLC

\* ---- bounds of the model ----
\* largest input pool, batch_size, num_rounds, concentrate_pool and num_gens
MaxPool == 2
MaxBatch == 3
MaxRounds == 2
MaxConc == 2
NumGens == 1
\* the calls of optimize on one optimizer object, and the rows of an input of
\* the pure functions
MaxCalls == 2
MaxRows == 3
\* self.algorithm.pop_size: the rows of the population the inner optimizer returns
PopSize == 2
\* the feasible sequences there are, and the values of one objective
SeqNames == 1..3
Vals == 1..2

VARIABLES pc, num_rounds, batch_size, concentrate_pool,
          pool, all_seqs, all_targets, active, pareto, pareto_history,
          round_idx, total_bb_evals, metrics, log, runs, aug_start,
          hv_ref, call_no, fn_in, fn_arg, fn_op, fn_out

vars == <<pc, num_rounds, batch_size, concentrate_pool,
          pool, all_seqs, all_targets, active, pareto, pareto_history,
          round_idx, total_bb_evals, metrics, log, runs, aug_start,
          hv_ref, call_no, fn_in, fn_arg, fn_op, fn_out>>

\* the input, the argument, the stage and the output of a pure function
fn_vars == <<fn_in, fn_arg, fn_op, fn_out>>

Vecs == Vals \X Vals
Min(a, b) == IF a <= b THEN a ELSE b
Max(a, b) == IF a >= b THEN a ELSE b
Range(s) == {s[i] : i \in DOMAIN s}
Seqs(s) == [i \in DOMAIN s |-> s[i].seq]
Tgts(s) == [i \in DOMAIN s |-> s[i].tgt]
SeqSet(s) == {s[i].seq : i \in DOMAIN s}

\* arr[idxs]: numpy indexing of an array by an index array
Take(arr, idxs) == [k \in DOMAIN idxs |-> arr[idxs[k]]]

\* (variants of Prefix: no slice at all; a slice one short)
PrefixAll(arr, k) == arr
PrefixShort(arr, k) == SubSeq(arr, 1, Min(k, Len(arr)) - 1)

\* arr[:k]: a slice, which stops at the end of the array
Prefix(arr, k) == SubSeq(arr, 1, Min(k, Len(arr)))

\* arr[mask]: numpy indexing of an array by a boolean mask
RECURSIVE MaskFrom(_, _, _)
MaskFrom(arr, mask, i) ==
  IF i > Len(arr) THEN << >>
  ELSE IF mask[i] THEN <<arr[i]>> \o MaskFrom(arr, mask, i + 1)
       ELSE MaskFrom(arr, mask, i + 1)
Masked(arr, mask) == MaskFrom(arr, mask, 1)

\* (variant of Dominates: strict in every coordinate)
DominatesStrictly(a, b) == \A k \in DOMAIN a : a[k] > b[k]

\* a dominates b when larger is better (the convention of botorch's pareto utility)
Dominates(a, b) ==
  /\ \A k \in DOMAIN a : a[k] >= b[k]
  /\ \E k \in DOMAIN a : a[k] > b[k]

Neg(v) == [k \in DOMAIN v |-> 0 - v[k]]

\* (variant of is_non_dominated: a point is compared with its successor only)
is_non_dominated_next(Y) ==
  [i \in DOMAIN Y |-> i = Len(Y) \/ ~ Dominates(Y[i + 1], Y[i])]

\* botorch.utils.multi_objective.pareto.is_non_dominated(Y), deduplicate=True
\* by default: the mask of the points no point dominates, of which only the
\* first occurrence of each vector is kept.
is_non_dominated(Y) ==
  [i \in DOMAIN Y |->
     /\ ~ \E j \in DOMAIN Y : Dominates(Y[j], Y[i])
     /\ \A j \in 1..(i - 1) : Y[j] # Y[i]]

pareto_frontier(candidate_pool, maximize) ==
  IF Len(candidate_pool) = 1 THEN candidate_pool
  ELSE LET obj_vals == Tgts(candidate_pool)
           pareto_mask == IF maximize
                          THEN is_non_dominated(obj_vals)
                          ELSE is_non_dominated([i \in DOMAIN obj_vals |-> Neg(obj_vals[i])])
       IN Masked(candidate_pool, pareto_mask)

\* bb_task.is_feasible: the oracle's mask; sequence 0 stands for any infeasible one
is_feasible(cand) == cand.seq # 0

\* np.random.choice(np.arange(n), k, p=weights, replace=False): the weights of
\* weighted_resampling are a softmax, hence all positive, so every ordered
\* draw of k distinct indices can come out
Samples(n, k) == {s \in [1..k -> 1..n] : \A a, b \in 1..k : a # b => s[a] # s[b]}

\* np.in1d(a, b)
in1d(a, b) == [i \in DOMAIN a |-> a[i] \in Range(b)]
Not(mask) == [i \in DOMAIN mask |-> ~ mask[i]]

\* np.unique(seqs, return_index=True)[1]: the index of the first occurrence of
\* each distinct value, in increasing order of the values
RECURSIVE SortIdxs(_, _)
SortIdxs(seqs, I) ==
  IF I = {} THEN << >>
  ELSE LET m == CHOOSE i \in I : \A j \in I : seqs[i] <= seqs[j]
       IN <<m>> \o SortIdxs(seqs, I \ {m})
\* (variants of unique_idxs: the last occurrence of each value; a value
\* compared with its predecessor only, before the sort)
unique_idxs_last(seqs) ==
  SortIdxs(seqs, {i \in DOMAIN seqs : \A j \in (i + 1)..Len(seqs) : seqs[j] # seqs[i]})
unique_idxs_adjacent(seqs) ==
  SortIdxs(seqs, {i \in DOMAIN seqs : i = 1 \/ seqs[i - 1] # seqs[i]})
unique_idxs(seqs) ==
  SortIdxs(seqs, {i \in DOMAIN seqs : \A j \in 1..(i - 1) : seqs[j] # seqs[i]})

\* (variant of FilterNew: the novelty filter left out)
FilterNewUniqueOnly(cands, seen) == Take(cands, unique_idxs(Seqs(cands)))

\* lines 237-246: duplicate filter, then novelty filter against self.all_seqs
FilterNew(cands, seen) ==
  LET uniq == Take(cands, unique_idxs(Seqs(cands)))
      is_new == Not(in1d(Seqs(uniq), seen))
  IN Masked(uniq, is_new)

\* (variants of MergeHistory: nothing appended; the history replaced)
MergeHistoryStale(history, front) == history
MergeHistoryReplace(history, front) == front

\* lines 288-291: append to the history the frontier entries whose sequence
\* the history does not hold yet (safe_np_cat concatenates)
MergeHistory(history, front) ==
  LET par_is_new == Not(in1d(Seqs(front), Seqs(history)))
  IN history \o Masked(front, par_is_new)

\* compute_mo_metrics, lines 307-309: the hypervolume of -solutions against
\* the reference point 0 (line 112), which is the area of the union of the
\* boxes [0, s] over the solutions s (two objectives with positive values)
hv(solutions) ==
  LET S == Range(solutions)
      top(k) == IF S = {} THEN 0 ELSE CHOOSE m \in {s[k] : s \in S} : \A s \in S : s[k] <= m
  IN Cardinality({c \in (1..top(1)) \X (1..top(2)) :
                    \E s \in S : c[1] <= s[1] /\ c[2] <= s[2]})

\* line 330: self._hv_ref is None (the empty tuple here) until the first
\* record of the object, and keeps its value from then on
hv_ref_after(ref, solutions) == IF ref = << >> THEN <<hv(solutions)>> ELSE ref

\* line 335: mo_metrics[0] / max(1e-6, self._hv_ref), as a fraction of
\* millionths
Ratio(h, ref) == [num |-> h * 1000000, den |-> Max(1, ref * 1000000)]

\* _log_optimizer_metrics: the record of one round, given self._hv_ref as it
\* is when the function is entered
Record(normed_targets, r, n, ref) ==
  [round_idx |-> r, hv |-> hv(normed_targets),
   hypervol_rel |-> Ratio(hv(normed_targets), hv_ref_after(ref, normed_targets)[1]),
   num_bb_evals |-> n]

\* (variant of num_samples: the batch size, whatever the population)
num_samples_batch(size, population) == size

\* lines 148 and 167: the number of indices asked of np.random.choice
num_samples(size, population) == Min(size, population)

\* (variant of contracts: every round when concentrate_pool is positive)
contracts_every_round(conc, r) == conc > 0

\* line 142: the rounds that contract the active set
contracts(conc, r) == conc > 0 /\ r % conc = 0

\* (variant of bb_evals: one evaluation per generation)
bb_evals_per_gen == NumGens

\* line 361: the evaluations one run of the inner optimizer is charged
bb_evals == NumGens * PopSize

\* (variant of extend_pool: the pool left as it was)
extend_pool_not(cands, new) == cands

\* lines 254-256: the accepted proposals go to the end of the full pool
extend_pool(cands, new) == cands \o new

\* ---- inputs ----
Entry(s, t) == [seq |-> s, tgt |-> t]
\* the labelled pool handed to optimize: n candidates named 1..n, with any
\* objective vectors (a pool the oracle leaves empty stops optimize at line 124)
FeasiblePools ==
  UNION {{[i \in 1..n |-> Entry(i, f[i])] : f \in [1..n -> Vecs]} : n \in 1..MaxPool}
InputPools == FeasiblePools
\* what the inner optimizer can return, given the candidates evaluated so far:
\* an infeasible row, a candidate that was evaluated before (with the
\* objective vector it was evaluated to), or an unseen sequence with any
\* objective vector; the population has pop_size rows and may hold the same
\* sequence more than once
Proposals(seen) ==
  {Entry(0, <<1, 1>>)} \cup Range(seen)
    \cup {Entry(s, t) : s \in SeqNames \ SeqSet(seen), t \in Vecs}
Batches(seen) == [1..PopSize -> Proposals(seen)]

\* ---- the program ----
Init ==
  /\ pc = "start"
  /\ num_rounds \in 0..MaxRounds
  /\ batch_size \in 1..MaxBatch
  /\ concentrate_pool \in 0..MaxConc
  /\ pool = << >> /\ all_seqs = << >> /\ all_targets = << >>
  /\ active = << >> /\ pareto = << >> /\ pareto_history = << >>
  /\ round_idx = 0 /\ total_bb_evals = 0
  /\ metrics = << >> /\ log = << >> /\ runs = << >>
  /\ aug_start = 0
  /\ hv_ref = << >> /\ call_no = 1
  /\ fn_in = << >> /\ fn_arg = << >> /\ fn_op = "none" /\ fn_out = << >>

\* optimize, lines 87-121
Initialize ==
  /\ pc = "start"
  /\ \E candidate_pool \in InputPools :
       LET pool_candidates == SelectSeq(candidate_pool, is_feasible)
           front == pareto_frontier(pool_candidates, TRUE)
       IN /\ pool' = pool_candidates
          /\ all_seqs' = Seqs(candidate_pool)
          /\ all_targets' = Tgts(candidate_pool)
          /\ active' = pool_candidates
          /\ pareto' = front
          /\ pareto_history' = front
          /\ metrics' = Record(Tgts(front), 0, 0, hv_ref)
          /\ hv_ref' = hv_ref_after(hv_ref, Tgts(front))
  /\ total_bb_evals' = 0
  /\ round_idx' = 0
  /\ log' = <<metrics'>>
  /\ pc' = "loop"
  /\ UNCHANGED <<num_rounds, batch_size, concentrate_pool, runs, aug_start,
                 call_no, fn_vars>>

\* (variant of NextRound: range(1, num_rounds))
NextRoundShort ==
  /\ pc = "loop"
  /\ IF round_idx < num_rounds - 1
     THEN round_idx' = round_idx + 1 /\ pc' = "contract"
     ELSE round_idx' = round_idx /\ pc' = "done"
  /\ UNCHANGED <<num_rounds, batch_size, concentrate_pool, pool, all_seqs,
                 all_targets, active, pareto, pareto_history, total_bb_evals,
                 metrics, log, runs, aug_start, hv_ref, call_no, fn_vars>>

\* line 140 (the loop head) and line 298 (the return)
NextRound ==
  /\ pc = "loop"
  /\ IF round_idx < num_rounds
     THEN round_idx' = round_idx + 1 /\ pc' = "contract"
     ELSE round_idx' = round_idx /\ pc' = "done"
  /\ UNCHANGED <<num_rounds, batch_size, concentrate_pool, pool, all_seqs,
                 all_targets, active, pareto, pareto_history, total_bb_evals,
                 metrics, log, runs, aug_start, hv_ref, call_no, fn_vars>>

\* lines 141-145
Contract ==
  /\ pc = "contract"
  /\ active' = IF contracts(concentrate_pool, round_idx)
               THEN pareto_frontier(active, FALSE)
               ELSE active
  /\ aug_start' = Len(active')
  /\ pc' = "backtrack"
  /\ UNCHANGED <<num_rounds, batch_size, concentrate_pool, pool, all_seqs,
                 all_targets, pareto, pareto_history, round_idx,
                 total_bb_evals, metrics, log, runs, hv_ref, call_no, fn_vars>>

\* lines 146-164
Backtrack ==
  /\ pc = "backtrack"
  /\ IF Len(active) < batch_size
     THEN LET n == num_samples(batch_size, Len(pareto_history))
              num_backtrack == Min(n, batch_size - Len(active))
          IN \E drawn \in Samples(Len(pareto_history), n) :
               LET is_active == in1d(Seqs(Take(pareto_history, drawn)), Seqs(active))
                   hist_idxs == Masked(drawn, Not(is_active))
               IN active' = IF Len(hist_idxs) > 0
                            THEN active \o Take(pareto_history, Prefix(hist_idxs, num_backtrack))
                            ELSE active
     ELSE active' = active
  /\ pc' = "random"
  /\ UNCHANGED <<num_rounds, batch_size, concentrate_pool, pool, all_seqs,
                 all_targets, pareto, pareto_history, round_idx,
                 total_bb_evals, metrics, log, runs, aug_start, hv_ref,
                 call_no, fn_vars>>

\* lines 165-181
RandomAugment ==
  /\ pc = "random"
  /\ IF Len(active) < batch_size
     THEN LET n == num_samples(batch_size, Len(pool))
              num_rand == Min(n, batch_size - Len(active))
          IN \E drawn \in Samples(Len(pool), n) :
               LET is_active == in1d(Seqs(Take(pool, drawn)), Seqs(active))
                   rand_idxs == Prefix(Masked(drawn, Not(is_active)), num_rand)
               IN active' = active \o Take(pool, rand_idxs)
     ELSE active' = active
  /\ pc' = "inner"
  /\ UNCHANGED <<num_rounds, batch_size, concentrate_pool, pool, all_seqs,
                 all_targets, pareto, pareto_history, round_idx,
                 total_bb_evals, metrics, log, runs, aug_start, hv_ref,
                 call_no, fn_vars>>

\* lines 183-296: one run of the inner optimizer, the filter pipeline and the
\* update of the pool, the archive and the history
Propose ==
  /\ pc = "inner"
  /\ runs' = Append(runs, round_idx)
  /\ total_bb_evals' = total_bb_evals + bb_evals
  /\ \E res \in Batches(pool) :
       LET feasible == SelectSeq(res, is_feasible)
           new == FilterNew(feasible, all_seqs)
       IN IF Len(feasible) = 0
          THEN UNCHANGED <<pool, all_seqs, all_targets, active, pareto,
                           pareto_history, metrics, log, hv_ref>>
          ELSE IF Len(new) = 0
          THEN /\ log' = Append(log, Record(Tgts(pareto), round_idx, total_bb_evals', hv_ref))
               /\ hv_ref' = hv_ref_after(hv_ref, Tgts(pareto))
               /\ UNCHANGED <<pool, all_seqs, all_targets, active, pareto,
                              pareto_history, metrics>>
          ELSE LET front == pareto_frontier(pareto \o new, FALSE)
               IN /\ pool' = extend_pool(pool, new)
                  /\ all_seqs' = all_seqs \o Seqs(new)
                  /\ all_targets' = all_targets \o Tgts(new)
                  /\ active' = active \o new
                  /\ pareto' = front
                  /\ pareto_history' = MergeHistory(pareto_history, front)
                  /\ metrics' = Record(Tgts(front), round_idx, total_bb_evals', hv_ref)
                  /\ hv_ref' = hv_ref_after(hv_ref, Tgts(front))
                  /\ log' = Append(log, metrics')
  /\ pc' = "loop"
  /\ aug_start' = 0
  /\ UNCHANGED <<num_rounds, batch_size, concentrate_pool, round_idx,
                 call_no, fn_vars>>

Next ==
  \/ Initialize
  \/ NextRound
  \/ Contract
  \/ Backtrack
  \/ RandomAugment
  \/ Propose

Spec == Init /\ [][Next]_vars

\* ---- optimize called again on the same optimizer object ----
\* optimize returns (line 298) and is entered again: its local variables are
\* gone, and the attributes of the object stay as the first call left them;
\* of these only self._hv_ref is read before it is written (line 330)
Reoptimize ==
  /\ pc = "done" /\ call_no < MaxCalls
  /\ call_no' = call_no + 1
  /\ pc' = "start"
  /\ pool' = << >> /\ all_seqs' = << >> /\ all_targets' = << >>
  /\ active' = << >> /\ pareto' = << >> /\ pareto_history' = << >>
  /\ round_idx' = 0 /\ total_bb_evals' = 0
  /\ metrics' = << >> /\ log' = << >> /\ runs' = << >>
  /\ UNCHANGED <<num_rounds, batch_size, concentrate_pool, aug_start, hv_ref,
                 fn_vars>>

\* an optimizer of at most one round, called up to MaxCalls times
InitCalls == Init /\ num_rounds <= 1

NextCalls ==
  \/ Initialize
  \/ NextRound
  \/ Contract
  \/ Backtrack
  \/ RandomAugment
  \/ Propose
  \/ Reoptimize

SpecCalls == InitCalls /\ [][NextCalls]_vars

\* ---- the pure functions on their own ----
\* rows of a batch or of a pool: sequence 0 is infeasible
Rows == {Entry(0, <<1, 1>>)} \cup {Entry(s, t) : s \in SeqNames, t \in Vecs}
\* the pools of the examples of pareto_frontier: three points on a line, with
\* a point they dominate, and with a point that dominates the middle one
ExamplePools ==
  LET line == <<Entry(1, <<1, 5>>), Entry(2, <<3, 3>>), Entry(3, <<5, 1>>)>>
  IN {line, line \o <<Entry(4, <<4, 4>>)>>, line \o <<Entry(4, <<2, 2>>)>>}
FnInputs == UNION {[1..n -> Rows] : n \in 1..MaxRows} \cup ExamplePools
\* self.all_seqs, as far as np.in1d reads it: the sequences it holds
SeenLists == {SortIdxs([s \in SeqNames |-> s], S) : S \in SUBSET SeqNames}

InitFn ==
  /\ pc = "fn"
  /\ num_rounds = 0 /\ batch_size = 1 /\ concentrate_pool = 0
  /\ pool = << >> /\ all_seqs = << >> /\ all_targets = << >>
  /\ active = << >> /\ pareto = << >> /\ pareto_history = << >>
  /\ round_idx = 0 /\ total_bb_evals = 0
  /\ metrics = << >> /\ log = << >> /\ runs = << >>
  /\ aug_start = 0 /\ hv_ref = << >> /\ call_no = 1
  /\ fn_in \in FnInputs
  /\ fn_arg = << >> /\ fn_op = "none" /\ fn_out = << >>

main_vars == <<pc, num_rounds, batch_size, concentrate_pool,
               pool, all_seqs, all_targets, active, pareto, pareto_history,
               round_idx, total_bb_evals, metrics, log, runs, aug_start,
               hv_ref, call_no>>

\* pareto_frontier(fn_in, maximize), lines 20-34
ApplyFrontier ==
  /\ fn_op = "none"
  /\ \E maximize \in BOOLEAN :
       /\ fn_arg' = maximize
       /\ fn_out' = pareto_frontier(fn_in, maximize)
  /\ fn_op' = "frontier"
  /\ UNCHANGED <<main_vars, fn_in>>

\* pareto_frontier of what pareto_frontier returned
ApplyFrontierAgain ==
  /\ fn_op = "frontier"
  /\ fn_out' = pareto_frontier(fn_out, fn_arg)
  /\ fn_op' = "frontier2"
  /\ UNCHANGED <<main_vars, fn_in, fn_arg>>

\* lines 228-246 on the batch fn_in: feasibility, duplicate and novelty filter
ApplyFilter ==
  /\ fn_op = "none"
  /\ \E seen \in SeenLists :
       /\ fn_arg' = seen
       /\ fn_out' = FilterNew(SelectSeq(fn_in, is_feasible), seen)
  /\ fn_op' = "filter"
  /\ UNCHANGED <<main_vars, fn_in>>

\* lines 237-246 on what they returned
ApplyFilterAgain ==
  /\ fn_op = "filter"
  /\ fn_out' = FilterNew(fn_out, fn_arg)
  /\ fn_op' = "filter2"
  /\ UNCHANGED <<main_vars, fn_in, fn_arg>>

NextFn ==
  \/ ApplyFrontier
  \/ ApplyFrontierAgain
  \/ ApplyFilter
  \/ ApplyFilterAgain

SpecFn == InitFn /\ [][NextFn]_vars

\* ---- properties ----
AtRoundEnd == pc \in {"loop", "done"}
NoDup(s) == \A i, j \in DOMAIN s : i # j => s[i].seq # s[j].seq
IsPrefix(s, t) == Len(s) <= Len(t) /\ SubSeq(t, 1, Len(s)) = s
\* a is at least as good as b in every coordinate and better in one
Better(a, b, maximize) ==
  IF maximize
  THEN (\A k \in 1..Len(a) : a[k] >= b[k]) /\ a # b
  ELSE (\A k \in 1..Len(a) : a[k] <= b[k]) /\ a # b
\* the objective vectors of the entries of s that no entry of s dominates
NonDominatedVecs(s, maximize) ==
  {s[i].tgt : i \in {i \in DOMAIN s :
                       ~ \E j \in DOMAIN s : Better(s[j].tgt, s[i].tgt, maximize)}}
\* a sequence that was accepted in a round (the input pool is named 1..n, n <= MaxPool)
Accepted(s) == \E i \in DOMAIN s : s[i].seq > MaxPool

\* C1: after initialization and after every round, no objective vector of the
\* reported Pareto frontier dominates another one, in either direction.
C1_FrontierMutuallyNonDominated ==
  AtRoundEnd =>
    \A i, j \in DOMAIN pareto :
      /\ ~ Better(pareto[i].tgt, pareto[j].tgt, TRUE)
      /\ ~ Better(pareto[i].tgt, pareto[j].tgt, FALSE)
C1_Witness ==
  /\ pc = "loop" /\ round_idx >= 1
  /\ Len(pareto) >= 2 /\ Accepted(pareto) /\ Len(pool) > Len(pareto)

\* C2: after initialization and after every round the Pareto archive is the
\* non-dominated subset of the full pool.  Stated on the objective vectors and
\* for whichever direction fits the state, both of which the claim implies.
C2_ArchiveIsFrontierOfPool ==
  AtRoundEnd =>
    \/ Range(Tgts(pareto)) = NonDominatedVecs(pool, FALSE)
    \/ Range(Tgts(pareto)) = NonDominatedVecs(pool, TRUE)

\* C3: every sequence of the Pareto archive is in the Pareto history, in
\* every state of the run.
C3_ArchiveInHistory ==
  /\ SeqSet(pareto) \subseteq SeqSet(pareto_history)
  /\ Range(pareto) \subseteq Range(pareto_history)
C3_Witness ==
  /\ pc = "loop" /\ round_idx >= 1
  /\ Accepted(pareto) /\ Len(pareto_history) = Len(pareto) + 1

\* C4: the Pareto history only grows: every step keeps the entries it holds,
\* in place, and appends only sequences it did not hold, each once.
C4_HistoryOnlyGrows ==
  [][/\ IsPrefix(pareto_history, pareto_history')
     /\ \A i \in (Len(pareto_history) + 1)..Len(pareto_history') :
          /\ pareto_history'[i].seq \notin SeqSet(pareto_history)
          /\ \A j \in (Len(pareto_history) + 1)..(i - 1) :
               pareto_history'[j].seq # pareto_history'[i].seq]_vars
C4_Witness ==
  /\ pc = "loop" /\ round_idx >= 2
  /\ Accepted(pareto_history) /\ Len(pareto_history) > Len(pareto) + 1

C6_ActiveAtMostBatch ==
  pc = "inner" => Len(active) <= batch_size
\* C6 amended: augmentation never takes the active set above batch_size; a
\* set that left contraction with batch_size entries or more is handed over
\* as it is.
C6_AugmentationBounded ==
  pc = "inner" =>
    /\ aug_start < batch_size => Len(active) <= batch_size
    /\ aug_start >= batch_size => Len(active) = aug_start
C6_Witness ==
  /\ pc = "inner" /\ round_idx >= 2
  /\ aug_start < batch_size /\ Len(active) = batch_size
  /\ Len(pareto_history) > batch_size

\* C7: an active set below batch_size is filled from the history first (as
\* many entries as are missing, or all its entries that are not active) and
\* from the pool only while it is still below batch_size; it ends with
\* batch_size entries if history and pool hold enough sequences that were
\* not active, and with all of them otherwise.
Appended == SubSeq(active, aug_start + 1, Len(active))
StartSeqs == SeqSet(SubSeq(active, 1, aug_start))
C7_AfterBacktrack ==
  (pc = "random" /\ aug_start < batch_size) =>
    /\ Range(Appended) \subseteq Range(pareto_history)
    /\ Len(Appended) = Min(batch_size - aug_start,
                           Cardinality(SeqSet(pareto_history) \ StartSeqs))
C7_AfterRandom ==
  (pc = "inner" /\ aug_start < batch_size) =>
    LET others == (SeqSet(pareto_history) \cup SeqSet(pool)) \ StartSeqs
    IN /\ Range(Appended) \subseteq Range(pareto_history) \cup Range(pool)
       /\ IF Cardinality(others) >= batch_size - aug_start
          THEN Len(active) = batch_size
          ELSE SeqSet(Appended) = others /\ Len(active) < batch_size
C7_AugmentationFills ==
  /\ [](C7_AfterBacktrack /\ C7_AfterRandom)
  /\ [][(pc = "random" /\ Len(active) >= batch_size) => active' = active]_vars
C7_Witness ==
  /\ pc = "inner" /\ aug_start < batch_size
  /\ Len(active) = batch_size /\ Len(Appended) = 2
  /\ Appended[1] \in Range(pareto_history)
  /\ Appended[2] \notin Range(pareto_history)

\* C8: a round whose proposal set becomes empty (nothing is accepted) emits a
\* metrics record for that round.
C8_EmptyRoundLogged ==
  [][(pc = "inner" /\ pool' = pool) =>
       /\ Len(log') = Len(log) + 1
       /\ log'[Len(log')].round_idx = round_idx]_vars

\* C9: optimize returns the record of the last round: its round_idx is
\* num_rounds and its evaluation count the cumulative count.
C9_ReturnsFinalRecord ==
  pc = "done" =>
    metrics.round_idx = num_rounds /\ metrics.num_bb_evals = total_bb_evals

\* C10: optimize runs the inner optimizer once in each round 1..num_rounds, in
\* increasing order, and stops after them: every step decreases Variant, and
\* at the return the runs are exactly 1, .., num_rounds.
PcRank ==
  CASE pc = "start" -> 2 [] pc = "loop" -> 1 [] pc = "contract" -> 5
    [] pc = "backtrack" -> 4 [] pc = "random" -> 3 [] pc = "inner" -> 2
    [] pc = "done" -> 0
Variant == 5 * (num_rounds - round_idx) + PcRank
C10_RunsEveryRound ==
  /\ [](/\ runs = [i \in 1..Len(runs) |-> i]
        /\ Len(runs) = IF pc \in {"start", "loop", "done"} THEN round_idx ELSE round_idx - 1
        /\ pc = "done" => Len(runs) = num_rounds)
  /\ [][Variant' < Variant /\ Variant' >= 0]_vars
C10_Witness ==
  /\ pc = "done" /\ num_rounds = MaxRounds
  /\ Len(runs) = MaxRounds /\ Len(log) = 1

\* C11: the accepted set of a round is the feasible rows of the batch, one
\* row per sequence, namely the first row of the batch with that sequence
\* (candidate and objective vector as that row pairs them), without the rows
\* whose sequence was observed before the round.
FirstRows(batch) ==
  {i \in DOMAIN batch :
     batch[i].seq # 0 /\ \A j \in 1..(i - 1) : batch[j].seq # batch[i].seq}
C11_AcceptedSet ==
  fn_op = "filter" =>
    /\ Range(fn_out) = {fn_in[i] : i \in {k \in FirstRows(fn_in) : fn_in[k].seq \notin Range(fn_arg)}}
    /\ NoDup(fn_out)
C11_Witness ==
  /\ fn_op = "filter" /\ Len(fn_in) = 3
  /\ fn_in[1].seq = fn_in[3].seq /\ fn_in[1].tgt # fn_in[3].tgt
  /\ fn_in[2].seq \in Range(fn_arg)
  /\ fn_out = <<fn_in[1]>>

\* C12: with the observed set fixed, the duplicate and novelty filter applied
\* to its own result returns that result: the same rows in the same order.
C12_FilterIdempotent ==
  [][fn_op = "filter" => fn_out' = fn_out]_vars
C12_Witness ==
  /\ fn_op = "filter2" /\ Len(fn_in) = 3 /\ Len(fn_out) = 2
  /\ fn_in[1].seq = fn_in[3].seq /\ fn_in[1].seq > fn_in[2].seq
  /\ fn_arg # << >>

\* C13: pareto_frontier applied to its own result returns that result, for
\* either direction, pools of one entry and pools with equal vectors.
C13_FrontierIdempotent ==
  [][fn_op = "frontier" => fn_out' = fn_out]_vars
C13_Witness ==
  /\ fn_op = "frontier2" /\ Len(fn_in) = 3 /\ Len(fn_out) = 1
  /\ fn_in[1].tgt = fn_in[3].tgt /\ fn_in[1].seq # fn_in[3].seq
  /\ fn_out = <<fn_in[1]>>
  /\ Better(fn_in[1].tgt, fn_in[2].tgt, fn_arg)

\* C14: pareto_frontier returns exactly the entries that no other entry
\* dominates in the given direction, each with its own objective vector and
\* in the order of the input; entries with equal vectors are all kept, and a
\* pool of one entry comes back as it is.
C14_FrontierIsNonDominatedSet ==
  fn_op = "frontier" =>
    fn_out = Masked(fn_in, [i \in DOMAIN fn_in |->
                              ~ \E j \in DOMAIN fn_in :
                                  Better(fn_in[j].tgt, fn_in[i].tgt, fn_arg)])

\* C15: at every point of the run every entry of the active set is an entry
\* of the full pool, and so is every entry of the Pareto history (hence the
\* active set never holds a candidate that is in neither).
C15_ActiveAndHistoryInPool ==
  /\ Range(active) \subseteq Range(pool)
  /\ Range(pareto_history) \subseteq Range(pool)
C15_Witness ==
  /\ pc = "inner" /\ round_idx >= 2
  /\ Len(Appended) >= 1 /\ Appended[1] \in Range(pareto_history)
  /\ Accepted(active) /\ Accepted(pareto_history)

\* C16: the cumulative evaluation count is num_gens * pop_size times the
\* number of inner runs made, whether or not their proposals survived; every
\* record emitted for round r reports r * num_gens * pop_size, and the record
\* of round 0 reports 0.
C16_EvalCount ==
  /\ total_bb_evals = Len(runs) * NumGens * PopSize
  /\ \A i \in DOMAIN log :
       log[i].num_bb_evals = log[i].round_idx * NumGens * PopSize
  /\ log # << >> => log[1].round_idx = 0 /\ log[1].num_bb_evals = 0
  /\ metrics # << >> => metrics.num_bb_evals = metrics.round_idx * NumGens * PopSize
C16_Witness ==
  /\ pc = "loop" /\ round_idx = 2
  /\ Len(log) = 2 /\ log[2].round_idx = 2
  /\ log[2].num_bb_evals = 2 * NumGens * PopSize
  /\ metrics.round_idx = 0

\* C17: whenever the backtrack or the random augmentation draws, the number
\* of distinct indices it asks of the sampler is at most the size of the
\* population it draws from (the history, the pool), so that a draw exists.
C17_BacktrackDraw ==
  (pc = "backtrack" /\ Len(active) < batch_size) =>
    LET k == num_samples(batch_size, Len(pareto_history))
    IN k <= Len(pareto_history) /\ Samples(Len(pareto_history), k) # {}
C17_RandomDraw ==
  (pc = "random" /\ Len(active) < batch_size) =>
    LET k == num_samples(batch_size, Len(pool))
    IN k <= Len(pool) /\ Samples(Len(pool), k) # {}
C17_SampleFits == C17_BacktrackDraw /\ C17_RandomDraw
C17_Witness ==
  /\ pc = "random" /\ Len(active) < batch_size
  /\ Len(pareto_history) < batch_size /\ Len(pool) > batch_size

\* C18: the active set is replaced by its own frontier at the start of the
\* rounds r with concentrate_pool > 0 and r divisible by concentrate_pool, and
\* of no other round (none at all when concentrate_pool is 0); in a round
\* that does not contract, the entries the active set held at the end of the
\* round before are all there when it is handed to the inner optimizer.
C18_ContractionRounds ==
  [][/\ pc = "contract" =>
          IF concentrate_pool > 0 /\ round_idx % concentrate_pool = 0
          THEN /\ Range(active') \subseteq Range(active)
               /\ Range(Tgts(active')) = NonDominatedVecs(active, FALSE)
          ELSE active' = active
     /\ pc = "loop" => active' = active
     /\ pc \in {"backtrack", "random"} => IsPrefix(active, active')]_vars
C18_Witness ==
  /\ pc = "inner" /\ concentrate_pool = 2 /\ round_idx = 2
  /\ Accepted(pool) /\ aug_start < Len(pool) /\ Len(active) > aug_start

\* C19: a round in which nothing is accepted leaves the full pool, the
\* observed sequences and targets, the Pareto archive and the Pareto history
\* as they were before the round; the steps before the inner run change none
\* of them in any round.
C19_EmptyRoundFrame ==
  [][/\ (pc = "inner" /\ pool' = pool) =>
          UNCHANGED <<all_seqs, all_targets, pareto, pareto_history>>
     /\ pc \in {"loop", "contract", "backtrack", "random"} =>
          UNCHANGED <<pool, all_seqs, all_targets, pareto, pareto_history,
                      total_bb_evals>>]_vars
C19_Witness ==
  /\ pc = "loop" /\ round_idx = 1 /\ Len(runs) = 1
  /\ Len(log) = 2 /\ metrics.round_idx = 0
  /\ Len(active) < Len(pool)

\* C20: in every metrics record the relative hypervolume is the record's
\* hypervolume over max(1e-6, reference), where the reference is the
\* hypervolume of the round-0 record of the same call of optimize, also when
\* optimize is called again on the same optimizer object.
C20_RelativeToRoundZero ==
  log # << >> =>
    /\ hv_ref = <<log[1].hv>>
    /\ \A i \in DOMAIN log :
         log[i].hypervol_rel =
           [num |-> log[i].hv * 1000000,
            den |-> IF log[1].hv >= 1 THEN log[1].hv * 1000000 ELSE 1]
====
